---- MODULE Spec2Model ----
(***************************************************************************)
(* Model of the Hyperliquid funding-rate pipeline:                         *)
(*   backend/hyperliquid_service.py  HyperliquidService (client + ranking) *)
(*   backend/server.py               update_hyperliquid_data (refresh),    *)
(*                                   lifespan (startup + hourly job),      *)
(*                                   get_hyperliquid_top_coins (read)      *)
(*                                                                         *)
(* Two specifications share the operators of the ranking:                  *)
(*   SpecRank  one HyperliquidService running get_top_funding_rate_coins   *)
(*             twice over inputs drawn by Init, one loop iteration a step; *)
(*   Spec      the server: the background refresh and the read requests    *)
(*             interleaving at their await points over the Mongo           *)
(*             collection hyperliquid_top_coins.                           *)
(*                                                                         *)
(* Numbers: the exchange sends decimal strings.  A field is modelled as    *)
(* Num(v) (a string float() parses, v an integer), Bad (a string float()   *)
(* rejects with ValueError) or Missing (the key is absent).  Quotients     *)
(* (the average rate) are exact rationals [n, d], compared by cross        *)
(* multiplication; float rounding, inf and nan are outside the model.      *)
(***************************************************************************)
EXTENDS Integers, Sequences, FiniteSets, TLC

VARIABLES
    \* one get_top_funding_rate_coins caller (SpecRank)
    universe,        \* data[0]["universe"]: sequence of [hasName, name]
    contexts,        \* data[1]: sequence of context records
    funding,         \* coin name -> the fundingHistory response for it
    params,          \* [min_open_interest, min_daily_volume, top_n]
    rpc,             \* "idle", "loop", "returned", "raised"
    idx,             \* loop index i (1-based)
    eligible_coins,  \* the list of line 94
    returned,        \* what each finished call gave its caller, in order
    \* the server (Spec)
    store,           \* collection hyperliquid_top_coins: documents in insertion order
    clock,           \* datetime.now(timezone.utc), in seconds
    started,         \* lifespan has passed the startup refresh and started the scheduler
    jobs,            \* scheduled jobs fired so far
    reads,           \* requests each client has issued so far
    pc,              \* where each process is suspended
    ret,             \* where update_hyperliquid_data returns to in its caller
    coins,           \* update_hyperliquid_data: local coins (line 125)
    now,             \* update_hyperliquid_data: local now (line 127)
    deleted,         \* update_hyperliquid_data: what its delete_many removed (DeleteResult)
    force,           \* get_hyperliquid_top_coins: force_refresh
    cached,          \* get_hyperliquid_top_coins: cached_data
    response,        \* what the last request of each client was answered with
    refreshes,       \* history: update_hyperliquid_data calls made by the current request
    outcome,         \* history: how the last update_hyperliquid_data call went (the log)
    delivered        \* history: how that call ended for its caller ("returned"/"raised")

rankVars == <<universe, contexts, funding, params, rpc, idx, eligible_coins, returned>>
serverVars == <<store, clock, started, jobs, reads, pc, ret, coins, now, deleted, force,
                cached, response, refreshes, outcome, delivered>>
vars == <<rankVars, serverVars>>

\* ------------------------------------------------------------------ bounds
MaxCoins == 2        \* longest universe drawn
MaxTopN == 2         \* largest top_n drawn
MaxClock == 2        \* hours the server clock may advance
MaxReads == 2        \* read requests each client may issue
MaxJobs == 1         \* scheduled jobs that may fire after the startup refresh

\* ------------------------------------------------------- program constants
DefaultMinOpenInterest == 10000000
DefaultMinDailyVolume == 10000000
FundingPeriodsPerDay == 3
DaysPerYear == 365
DefaultTopN == 10
StaleSeconds == 3600
RefreshSeconds == 3600
HttpOk == 200

\* ------------------------------------------------------------ field values
Num(v) == [k |-> "num", v |-> v]
Bad == [k |-> "bad", v |-> 0]
Missing == [k |-> "missing", v |-> 0]

\* dict.get(key, "0"): the default "0" when the key is absent
dict_get(field) == IF field.k = "missing" THEN Num(0) ELSE field

\* float(x): a value, or ValueError on an unparsable string
float_raises(field) == field.k # "num"
float_val(field) == field.v

\* exact rationals n/d, d > 0
Rat(n, d) == [n |-> n, d |-> d]
RatEq(a, b) == a.n * b.d = b.n * a.d
RatLess(a, b) == a.n * b.d < b.n * a.d
RatGeq(a, b) == ~RatLess(a, b)

RECURSIVE SeqSum(_)
SeqSum(s) == IF s = <<>> THEN 0 ELSE Head(s) + SeqSum(Tail(s))

\* ---------------------------------------------------------- market client
\* fetch_funding_history: the response is [status, error, body]; error is a
\* transport failure (aiohttp.ClientError), which the function does not catch.
\* raise_for_status(): a non-success status raises as a transport failure does
RaisesOnStatus(resp) == resp.error \/ resp.status # HttpOk

fetch_funding_history_raises(resp) == resp.error

fetch_funding_history(resp) ==
    IF resp.status # HttpOk THEN <<>> ELSE resp.body

\* entry["fundingRate"]: KeyError when absent, float() ValueError when bad
rates_raise(funding_history) ==
    \E j \in 1..Len(funding_history) : funding_history[j].k # "num"

rates_of(funding_history) ==
    [j \in 1..Len(funding_history) |-> float_val(funding_history[j])]

calculate_average_funding_rate(funding_history) ==
    IF funding_history = <<>>
    THEN Rat(0, 1)
    ELSE Rat(SeqSum(rates_of(funding_history)), Len(funding_history))

\* ---------------------------------------------------------- ranking engine
NoCoin == [coin |-> "", avg_funding_rate |-> Rat(0, 1),
           annualized_funding_rate |-> Rat(0, 1), current_funding_rate |-> 0,
           current_funding_rate_annualized |-> 0, total_7d_funding |-> 0,
           open_interest_usd |-> 0, daily_volume_usd |-> 0, mark_price |-> 0,
           funding_data_points |-> 0]

\* "and" written for "or": skips only what is below both minimums
BelowBothThresholds(oi_usd, vol_usd, min_open_interest, min_daily_volume) ==
    oi_usd < min_open_interest /\ vol_usd < min_daily_volume

\* "<=" written for "<": a value exactly at a minimum is skipped
BelowOrAtThreshold(oi_usd, vol_usd, min_open_interest, min_daily_volume) ==
    oi_usd <= min_open_interest \/ vol_usd <= min_daily_volume

\* the liquidity filter of line 119: skip when below either minimum
BelowThreshold(oi_usd, vol_usd, min_open_interest, min_daily_volume) ==
    oi_usd < min_open_interest \/ vol_usd < min_daily_volume

\* the check of line 132 left out
NoHistoryUnchecked(funding_history) == FALSE

\* line 132: "if not funding_history"
NoHistory(funding_history) == funding_history = <<>>

Annualize(avg) == Rat(avg.n * FundingPeriodsPerDay * DaysPerYear, avg.d)

\* One iteration of the loop over the universe (lines 96-175): what the
\* iteration for index i does.  kind is "skip" (continue), "append"
\* (eligible_coins.append(rec)) or "raise" (an exception leaves the function).
DoSkip == [kind |-> "skip", rec |-> NoCoin]
DoRaise == [kind |-> "raise", rec |-> NoCoin]
DoAppend(rec) == [kind |-> "append", rec |-> rec]

\* The record of lines 153-167.  The *_pct fields are the fields kept here
\* times 100 and are left out.
CoinRecord(coin_name, context, funding_history) ==
    LET avg == calculate_average_funding_rate(funding_history)
        oi == float_val(dict_get(context.openInterest))
        px == float_val(dict_get(context.markPx))
        cur == float_val(dict_get(context.funding))
    IN  [coin |-> coin_name,
         avg_funding_rate |-> avg,
         annualized_funding_rate |-> Annualize(avg),
         current_funding_rate |-> cur,
         current_funding_rate_annualized |-> cur * FundingPeriodsPerDay * DaysPerYear,
         total_7d_funding |-> SeqSum(rates_of(funding_history)),
         open_interest_usd |-> oi * px,
         daily_volume_usd |-> float_val(dict_get(context.dayNtlVlm)),
         mark_price |-> px,
         funding_data_points |-> Len(funding_history)]

\* the context of the first instrument used for every instrument
FirstContext(ctxs, i) == ctxs[1]

\* line 101: context = contexts[i]
ContextAt(ctxs, i) == ctxs[i]

ProcessCoin(univ, ctxs, fund, i, min_open_interest, min_daily_volume) ==
    IF i > Len(ctxs) THEN DoSkip                       \* lines 97-98
    ELSE IF ~univ[i].hasName THEN DoRaise              \* line 100, outside the try
    ELSE
      LET coin_name == univ[i].name
          context == ContextAt(ctxs, i)
          ois == dict_get(context.openInterest)
          pxs == dict_get(context.markPx)
          vols == dict_get(context.dayNtlVlm)
      IN IF float_raises(ois) \/ float_raises(pxs) \/ float_raises(vols)
         THEN DoSkip                                     \* ValueError, line 173
         ELSE IF BelowThreshold(float_val(ois) * float_val(pxs), float_val(vols),
                                min_open_interest, min_daily_volume)
         THEN DoSkip                                     \* lines 119-123
         ELSE IF fetch_funding_history_raises(fund[coin_name])
         THEN DoRaise                                    \* line 130, not caught by 173
         ELSE LET funding_history == fetch_funding_history(fund[coin_name])
              IN IF NoHistory(funding_history) THEN DoSkip          \* lines 132-134
                 ELSE IF rates_raise(funding_history) THEN DoSkip   \* line 63 via 137
                 ELSE IF float_raises(dict_get(context.funding)) THEN DoSkip \* line 145
                 ELSE DoAppend(CoinRecord(coin_name, context, funding_history))

\* An unstable descending sort: x goes in front of the elements whose key
\* equals its own.
RECURSIVE InsertDescUnstable(_, _)
InsertDescUnstable(x, s) ==
    IF s = <<>> THEN <<x>>
    ELSE IF RatLess(x.annualized_funding_rate, Head(s).annualized_funding_rate)
         THEN <<Head(s)>> \o InsertDescUnstable(x, Tail(s))
         ELSE <<x>> \o s

\* list.sort(key=annualized_funding_rate, reverse=True): stable, descending.
\* x goes behind every element whose key is greater than or equal to its own.
RECURSIVE InsertDesc(_, _)
InsertDesc(x, s) ==
    IF s = <<>> THEN <<x>>
    ELSE IF RatGeq(Head(s).annualized_funding_rate, x.annualized_funding_rate)
         THEN <<Head(s)>> \o InsertDesc(x, Tail(s))
         ELSE <<x>> \o s

\* reverse=True left out: ascending
RECURSIVE InsertAsc(_, _)
InsertAsc(x, s) ==
    IF s = <<>> THEN <<x>>
    ELSE IF RatGeq(x.annualized_funding_rate, Head(s).annualized_funding_rate)
         THEN <<Head(s)>> \o InsertAsc(x, Tail(s))
         ELSE <<x>> \o s

RECURSIVE SortAsc(_)
SortAsc(s) ==
    IF s = <<>> THEN <<>>
    ELSE InsertAsc(s[Len(s)], SortAsc(SubSeq(s, 1, Len(s) - 1)))

RECURSIVE SortDesc(_)
SortDesc(s) ==
    IF s = <<>> THEN <<>>
    ELSE InsertDesc(s[Len(s)], SortDesc(SubSeq(s, 1, Len(s) - 1)))

\* eligible_coins[:top_n] for top_n >= 0
Slice(s, n) == SubSeq(s, 1, IF n < Len(s) THEN n ELSE Len(s))

TopCoins(eligible, n) == Slice(SortDesc(eligible), n)

\* ------------------------------------------------- inputs drawn by SpecRank
CoinNames == <<"BTC", "ETH", "SOL", "DOGE", "XRP">>

Named(i) == [hasName |-> TRUE, name |-> CoinNames[i]]
Unnamed == [hasName |-> FALSE, name |-> ""]

\* Scenario A of the spec: 100 * 100000 = 10,000,000 USD, at the threshold
CtxLiquid == [openInterest |-> Num(100), markPx |-> Num(100000),
              dayNtlVlm |-> Num(20000000), funding |-> Num(1)]
CtxLowVolume == [CtxLiquid EXCEPT !.dayNtlVlm = Num(5000000)]
CtxLowOI == [CtxLiquid EXCEPT !.openInterest = Num(99)]
CtxBadField == [CtxLiquid EXCEPT !.openInterest = Bad]
CtxBadFunding == [CtxLiquid EXCEPT !.funding = Bad]
CtxNoPrice == [CtxLiquid EXCEPT !.markPx = Missing]

FundOk(body) == [status |-> HttpOk, error |-> FALSE, body |-> body]
FundHttpError == [status |-> 500, error |-> FALSE, body |-> <<>>]
FundTransportError == [status |-> 0, error |-> TRUE, body |-> <<>>]

GoodBodies == {<<Num(1)>>, <<Num(2)>>, <<Num(1), Num(1)>>, <<Num(-1)>>}

\* what the exchange may hold for one instrument: [meta-has-name, ctx, fund]
Instrument(named, ctx, fund) == [named |-> named, ctx |-> ctx, fund |-> fund]

InstrumentInputs ==
    {Instrument(TRUE, CtxLiquid, FundOk(b)) : b \in GoodBodies}
    \cup {Instrument(TRUE, CtxLiquid, f) :
             f \in {FundOk(<<>>), FundHttpError, FundTransportError,
                    FundOk(<<Num(2), Bad>>), FundOk(<<Missing>>)}}
    \cup {Instrument(TRUE, c, FundOk(<<Num(2)>>)) :
             c \in {CtxLowVolume, CtxLowOI, CtxBadField, CtxBadFunding, CtxNoPrice}}
    \cup {Instrument(FALSE, CtxLiquid, FundOk(<<Num(2)>>))}

ThresholdInputs ==
    {<<DefaultMinOpenInterest, DefaultMinDailyVolume>>, <<9900000, 5000000>>}

UniverseOf(ins) == [i \in 1..Len(ins) |-> IF ins[i].named THEN Named(i) ELSE Unnamed]
ContextsOf(ins, n) == [i \in 1..n |-> ins[i].ctx]
FundingOf(ins) ==
    [c \in {CoinNames[i] : i \in 1..Len(CoinNames)} |->
        IF \E i \in 1..Len(ins) : CoinNames[i] = c
        THEN ins[CHOOSE i \in 1..Len(ins) : CoinNames[i] = c].fund
        ELSE FundHttpError]

SeqsUpTo(S, n) == UNION {[1..m -> S] : m \in 0..n}

Readers == {"r1"}
Procs == {"bg"} \cup Readers

NoDoc == [present |-> FALSE, coins |-> <<>>, last_updated |-> 0, next_update |-> 0]
NoResponse == [kind |-> "none", coins |-> <<>>, last_updated |-> 0, next_update |-> 0]

ServerIdle ==
    /\ store = <<>>
    /\ clock = 0
    /\ started = FALSE
    /\ jobs = 0
    /\ reads = [r \in Readers |-> 0]
    /\ pc = [p \in Procs |-> "idle"]
    /\ ret = [p \in Procs |-> "idle"]
    /\ coins = [p \in Procs |-> <<>>]
    /\ now = [p \in Procs |-> 0]
    /\ deleted = [p \in Procs |-> <<>>]
    /\ force = [r \in Readers |-> FALSE]
    /\ cached = [r \in Readers |-> NoDoc]
    /\ response = [r \in Readers |-> NoResponse]
    /\ refreshes = [p \in Procs |-> 0]
    /\ outcome = [p \in Procs |-> "none"]
    /\ delivered = [p \in Procs |-> "none"]

RankIdle ==
    /\ universe = <<>>
    /\ contexts = <<>>
    /\ funding = FundingOf(<<>>)
    /\ params = [min_open_interest |-> DefaultMinOpenInterest,
                 min_daily_volume |-> DefaultMinDailyVolume, top_n |-> DefaultTopN]
    /\ rpc = "idle"
    /\ idx = 1
    /\ eligible_coins = <<>>
    /\ returned = <<>>

RankInit ==
    /\ ServerIdle
    /\ \E ins \in SeqsUpTo(InstrumentInputs, MaxCoins) :
         \E short \in {0, 1} :
           \E th \in ThresholdInputs :
             \E n \in 0..MaxTopN :
                /\ Len(ins) >= short
                /\ universe = UniverseOf(ins)
                /\ contexts = ContextsOf(ins, Len(ins) - short)
                /\ funding = FundingOf(ins)
                /\ params = [min_open_interest |-> th[1],
                             min_daily_volume |-> th[2], top_n |-> n]
                /\ rpc = "idle"
                /\ idx = 1
                /\ eligible_coins = <<>>
                /\ returned = <<>>

\* the list kept on the service object between calls instead of line 94
KeptList(old) == old

\* lines 85-94: the bulk fetch has succeeded; eligible_coins = []
NewList(old) == <<>>

StartRun ==
    /\ rpc \in {"idle", "returned", "raised"}
    /\ Len(returned) < 2
    /\ rpc' = "loop"
    /\ idx' = 1
    /\ eligible_coins' = NewList(eligible_coins)
    /\ UNCHANGED <<universe, contexts, funding, params, returned>>

\* one iteration of "for i, coin_meta in enumerate(universe)"
LoopStep ==
    /\ rpc = "loop"
    /\ idx <= Len(universe)
    /\ LET r == ProcessCoin(universe, contexts, funding, idx,
                            params.min_open_interest, params.min_daily_volume)
       IN \/ /\ r.kind = "skip"
             /\ idx' = idx + 1
             /\ UNCHANGED <<rpc, eligible_coins, returned>>
          \/ /\ r.kind = "append"
             /\ eligible_coins' = Append(eligible_coins, r.rec)
             /\ idx' = idx + 1
             /\ UNCHANGED <<rpc, returned>>
          \/ /\ r.kind = "raise"
             /\ rpc' = "raised"
             /\ returned' = Append(returned, [raised |-> TRUE, coins |-> <<>>])
             /\ UNCHANGED <<idx, eligible_coins>>
    /\ UNCHANGED <<universe, contexts, funding, params>>

\* lines 177-184: sort, cut, return
FinishRun ==
    /\ rpc = "loop"
    /\ idx > Len(universe)
    /\ eligible_coins' = SortDesc(eligible_coins)
    /\ returned' = Append(returned,
                          [raised |-> FALSE,
                           coins |-> TopCoins(eligible_coins, params.top_n)])
    /\ rpc' = "returned"
    /\ UNCHANGED <<universe, contexts, funding, params, idx>>

RankNext ==
    \/ StartRun /\ UNCHANGED serverVars
    \/ LoopStep /\ UNCHANGED serverVars
    \/ FinishRun /\ UNCHANGED serverVars

SpecRank == RankInit /\ [][RankNext]_vars

\* ------------------------------------------- the ranking as one evaluation
\* The loop of lines 96-175 from index i on, acc being eligible_coins so far.
RECURSIVE RunLoop(_, _, _, _, _, _, _)
RunLoop(univ, ctxs, fund, i, acc, min_open_interest, min_daily_volume) ==
    IF i > Len(univ) THEN [raised |-> FALSE, coins |-> acc]
    ELSE LET r == ProcessCoin(univ, ctxs, fund, i, min_open_interest, min_daily_volume)
         IN IF r.kind = "raise" THEN [raised |-> TRUE, coins |-> <<>>]
            ELSE RunLoop(univ, ctxs, fund, i + 1,
                         IF r.kind = "append" THEN Append(acc, r.rec) ELSE acc,
                         min_open_interest, min_daily_volume)

get_top_funding_rate_coins(univ, ctxs, fund, min_open_interest, min_daily_volume, top_n) ==
    LET r == RunLoop(univ, ctxs, fund, 1, <<>>, min_open_interest, min_daily_volume)
    IN IF r.raised THEN r
       ELSE [raised |-> FALSE, coins |-> TopCoins(r.coins, top_n)]

\* ------------------------------------------------------ the exchange (Spec)
\* What metaAndAssetCtxs may answer: a status and a JSON body of `elems`
\* top-level elements, the first with or without the key "universe".
Bulk(status, elems, hasUniverse, market) ==
    [status |-> status, elems |-> elems, hasUniverse |-> hasUniverse, market |-> market]

MarketA == <<Instrument(TRUE, CtxLiquid, FundOk(<<Num(1)>>)),
             Instrument(TRUE, CtxLiquid, FundOk(<<Num(2)>>))>>
MarketB == <<Instrument(TRUE, CtxLowVolume, FundOk(<<Num(2)>>)),
             Instrument(TRUE, CtxLiquid, FundOk(<<Num(1), Num(1)>>))>>
MarketBroken == <<Instrument(TRUE, CtxLiquid, FundTransportError)>>

BulkResponses ==
    {Bulk(HttpOk, 2, TRUE, MarketA), Bulk(HttpOk, 2, TRUE, MarketB),
     Bulk(HttpOk, 3, TRUE, MarketA), Bulk(HttpOk, 2, TRUE, MarketBroken),
     Bulk(500, 0, FALSE, <<>>), Bulk(HttpOk, 1, TRUE, <<>>),
     Bulk(HttpOk, 2, FALSE, <<>>)}

\* fetch_meta_and_contexts: raises on status != 200 (line 29), on data[0]
\* ["universe"] (line 31: IndexError/KeyError) and on data[1] (line 32)
fetch_meta_and_contexts_raises(resp) ==
    \/ resp.status # HttpOk
    \/ resp.elems < 1
    \/ ~resp.hasUniverse
    \/ resp.elems < 2

\* ------------------------------------------------------------- the store
find_one(s) == IF s = <<>> THEN NoDoc ELSE Head(s)

\* the document of lines 132-136
Doc(top_coins, t) ==
    [present |-> TRUE, coins |-> top_coins, last_updated |-> t,
     next_update |-> t + RefreshSeconds]

\* ">=" written for ">": a snapshot exactly one hour old counts as stale
IsStaleAtBoundary(doc, t) == t - doc.last_updated >= StaleSeconds

\* line 333
IsStale(doc, t) == t - doc.last_updated > StaleSeconds

\* HyperliquidCoin(**coin): the fields of the response model (lines 71-79)
HyperliquidCoin(c) ==
    [coin |-> c.coin, avg_funding_rate |-> c.avg_funding_rate,
     open_interest_usd |-> c.open_interest_usd, daily_volume_usd |-> c.daily_volume_usd,
     mark_price |-> c.mark_price, current_funding_rate |-> c.current_funding_rate,
     funding_data_points |-> c.funding_data_points]

\* lines 338-353
Success(doc) ==
    [kind |-> "success", coins |-> [j \in 1..Len(doc.coins) |-> HyperliquidCoin(doc.coins[j])],
     last_updated |-> doc.last_updated, next_update |-> doc.next_update]

\* lines 357-365: success=False, coins=[], both times now
Failure(t) == [kind |-> "failure", coins |-> <<>>, last_updated |-> t, next_update |-> t]

\* line 324 through 355-356: HTTPException(503) leaves the handler
Http503 == [kind |-> "http503", coins |-> <<>>, last_updated |-> 0, next_update |-> 0]

\* ------------------------------------------------ update_hyperliquid_data
\* The call itself (lines 120-125): runs to its first suspension, the bulk
\* request.  `back` is where the caller continues.
CallRefresh(p, back) ==
    /\ pc' = [pc EXCEPT ![p] = "u_fetch"]
    /\ ret' = [ret EXCEPT ![p] = back]
    /\ refreshes' = [refreshes EXCEPT ![p] = @ + 1]
    /\ outcome' = [outcome EXCEPT ![p] = "running"]
    /\ delivered' = [delivered EXCEPT ![p] = "none"]

\* A refresh that clears the collection before it knows it has data to store
\* (delete_many hoisted above the fetch): a failed refresh leaves it empty.
RefreshFailedClearsStore(p, why) ==
    /\ outcome' = [outcome EXCEPT ![p] = why]
    /\ delivered' = [delivered EXCEPT ![p] = "returned"]
    /\ pc' = [pc EXCEPT ![p] = ret[p]]
    /\ started' = (started \/ p = "bg")
    /\ store' = <<>>
    /\ UNCHANGED <<coins, now, deleted>>

\* No except clause: the exception leaves update_hyperliquid_data; raised at
\* line 167 it leaves lifespan before the scheduler is started.
RefreshFailedRaises(p, why) ==
    /\ outcome' = [outcome EXCEPT ![p] = why]
    /\ delivered' = [delivered EXCEPT ![p] = "raised"]
    /\ pc' = [pc EXCEPT ![p] = ret[p]]
    /\ started' = started
    /\ UNCHANGED <<store, coins, now, deleted>>

\* lines 139-140: the exception is logged and the function returns None
RefreshFailed(p, why) ==
    /\ outcome' = [outcome EXCEPT ![p] = why]
    /\ delivered' = [delivered EXCEPT ![p] = "returned"]
    /\ pc' = [pc EXCEPT ![p] = ret[p]]
    /\ started' = (started \/ p = "bg")
    /\ UNCHANGED <<store, coins, now, deleted>>

\* line 125 completes (the bulk request and the funding-history requests),
\* then lines 127-128, up to the suspension in delete_many
RefreshFetch(p) ==
    /\ pc[p] = "u_fetch"
    /\ \E resp \in BulkResponses :
         IF fetch_meta_and_contexts_raises(resp)
         THEN RefreshFailed(p, "bulk_failed")
         ELSE LET r == get_top_funding_rate_coins(
                           UniverseOf(resp.market),
                           ContextsOf(resp.market, Len(resp.market)),
                           FundingOf(resp.market),
                           DefaultMinOpenInterest, DefaultMinDailyVolume, DefaultTopN)
              IN IF r.raised
                 THEN RefreshFailed(p, "rank_failed")
                 ELSE /\ coins' = [coins EXCEPT ![p] = r.coins]
                      /\ now' = [now EXCEPT ![p] = clock]
                      /\ pc' = [pc EXCEPT ![p] = "u_delete"]
                      /\ UNCHANGED <<store, started, outcome, delivered, deleted>>
    /\ UNCHANGED <<clock, jobs, reads, ret, force, cached, response, refreshes>>

\* line 131: delete_many({})
RefreshDelete(p) ==
    /\ pc[p] = "u_delete"
    /\ store' = <<>>
    /\ deleted' = [deleted EXCEPT ![p] = store]
    /\ pc' = [pc EXCEPT ![p] = "u_insert"]
    /\ UNCHANGED <<clock, started, jobs, reads, ret, coins, now, force, cached,
                   response, refreshes, outcome, delivered>>

\* lines 132-138: insert_one, then the function returns
RefreshInsert(p) ==
    /\ pc[p] = "u_insert"
    /\ store' = Append(store, Doc(coins[p], now[p]))
    /\ outcome' = [outcome EXCEPT ![p] = "ok"]
    /\ delivered' = [delivered EXCEPT ![p] = "returned"]
    /\ pc' = [pc EXCEPT ![p] = ret[p]]
    /\ coins' = [coins EXCEPT ![p] = <<>>]
    /\ now' = [now EXCEPT ![p] = 0]
    /\ deleted' = [deleted EXCEPT ![p] = <<>>]
    /\ started' = (started \/ p = "bg")
    /\ UNCHANGED <<clock, jobs, reads, ret, force, cached, response, refreshes>>

\* ------------------------------------------------------------- lifespan
\* lines 170-178: the hourly job; APScheduler runs one instance of a job at
\* a time, so a tick while the job runs starts nothing
SchedTick ==
    /\ started
    /\ pc["bg"] = "idle"
    /\ jobs < MaxJobs
    /\ jobs' = jobs + 1
    /\ CallRefresh("bg", "idle")
    /\ UNCHANGED <<store, clock, started, reads, coins, now, deleted, force, cached,
                   response>>

\* an hour passes
Tick ==
    /\ clock < MaxClock * RefreshSeconds
    /\ clock' = clock + RefreshSeconds
    /\ UNCHANGED <<store, started, jobs, reads, pc, ret, coins, now, deleted, force, cached,
                   response, refreshes, outcome, delivered>>

\* ------------------------------------------- get_hyperliquid_top_coins
Answer(r, resp) ==
    /\ pc' = [pc EXCEPT ![r] = "done"]
    /\ response' = [response EXCEPT ![r] = resp]
    /\ UNCHANGED <<ret, refreshes, outcome, delivered>>

\* a request arrives (lines 305-316), suspended in the first find_one
StartRead(r, force_refresh) ==
    /\ started
    /\ pc[r] \in {"idle", "done"}
    /\ reads[r] < MaxReads
    /\ reads' = [reads EXCEPT ![r] = @ + 1]
    /\ force' = [force EXCEPT ![r] = force_refresh]
    /\ cached' = [cached EXCEPT ![r] = NoDoc]
    /\ response' = [response EXCEPT ![r] = NoResponse]
    /\ refreshes' = [refreshes EXCEPT ![r] = 0]
    /\ outcome' = [outcome EXCEPT ![r] = "none"]
    /\ delivered' = [delivered EXCEPT ![r] = "none"]
    /\ pc' = [pc EXCEPT ![r] = "find1"]
    /\ UNCHANGED <<store, clock, started, jobs, ret, coins, now, deleted>>

\* lines 326-353 for a document just looked up
StaleCheck(r, doc) ==
    IF IsStale(doc, clock)
    THEN CallRefresh(r, "find3") /\ UNCHANGED response
    ELSE Answer(r, Success(doc))

\* line 316 returns; lines 318-320, or 323-353
Find1(r) ==
    /\ pc[r] = "find1"
    /\ LET doc == find_one(store)
       IN /\ cached' = [cached EXCEPT ![r] = doc]
          /\ IF force[r] \/ ~doc.present
             THEN CallRefresh(r, "find2") /\ UNCHANGED response
             ELSE StaleCheck(r, doc)
    /\ UNCHANGED <<store, clock, started, jobs, reads, coins, now, deleted, force>>

\* line 321 returns; lines 323-353
Find2(r) ==
    /\ pc[r] = "find2"
    /\ LET doc == find_one(store)
       IN /\ cached' = [cached EXCEPT ![r] = doc]
          /\ IF ~doc.present
             THEN Answer(r, Http503)
             ELSE StaleCheck(r, doc)
    /\ UNCHANGED <<store, clock, started, jobs, reads, coins, now, deleted, force>>

\* line 336 returns; lines 338-353, or TypeError on None at 338 -> 357-365
Find3(r) ==
    /\ pc[r] = "find3"
    /\ LET doc == find_one(store)
       IN /\ cached' = [cached EXCEPT ![r] = doc]
          /\ IF ~doc.present
             THEN Answer(r, Failure(clock))
             ELSE Answer(r, Success(doc))
    /\ UNCHANGED <<store, clock, started, jobs, reads, coins, now, deleted, force>>

\* lifespan has reached line 167: the startup refresh awaits the exchange
Init ==
    /\ RankIdle
    /\ store = <<>>
    /\ clock = 0
    /\ started = FALSE
    /\ jobs = 0
    /\ reads = [r \in Readers |-> 0]
    /\ pc = [p \in Procs |-> IF p = "bg" THEN "u_fetch" ELSE "idle"]
    /\ ret = [p \in Procs |-> "idle"]
    /\ coins = [p \in Procs |-> <<>>]
    /\ now = [p \in Procs |-> 0]
    /\ deleted = [p \in Procs |-> <<>>]
    /\ force = [r \in Readers |-> FALSE]
    /\ cached = [r \in Readers |-> NoDoc]
    /\ response = [r \in Readers |-> NoResponse]
    /\ refreshes = [p \in Procs |-> IF p = "bg" THEN 1 ELSE 0]
    /\ outcome = [p \in Procs |-> IF p = "bg" THEN "running" ELSE "none"]
    /\ delivered = [p \in Procs |-> "none"]

Next ==
    \/ \E p \in Procs : RefreshFetch(p) /\ UNCHANGED rankVars
    \/ \E p \in Procs : RefreshDelete(p) /\ UNCHANGED rankVars
    \/ \E p \in Procs : RefreshInsert(p) /\ UNCHANGED rankVars
    \/ SchedTick /\ UNCHANGED rankVars
    \/ Tick /\ UNCHANGED rankVars
    \/ \E r \in Readers : \E f \in BOOLEAN : StartRead(r, f) /\ UNCHANGED rankVars
    \/ \E r \in Readers : Find1(r) /\ UNCHANGED rankVars
    \/ \E r \in Readers : Find2(r) /\ UNCHANGED rankVars
    \/ \E r \in Readers : Find3(r) /\ UNCHANGED rankVars

Spec == Init /\ [][Next]_vars

\* ------------------------------------------------- the store can fail too
\* update_hyperliquid_data returning through lines 139-140 from a store call
ReturnAfterStoreError(p, why) ==
    /\ outcome' = [outcome EXCEPT ![p] = why]
    /\ delivered' = [delivered EXCEPT ![p] = "returned"]
    /\ pc' = [pc EXCEPT ![p] = ret[p]]
    /\ coins' = [coins EXCEPT ![p] = <<>>]
    /\ now' = [now EXCEPT ![p] = 0]
    /\ deleted' = [deleted EXCEPT ![p] = <<>>]
    /\ started' = (started \/ p = "bg")
    /\ UNCHANGED <<clock, jobs, reads, ret, force, cached, response, refreshes>>

\* line 131: delete_many raises (the connection to the database is lost)
\* and nothing is deleted
RefreshDeleteFails(p) ==
    /\ pc[p] = "u_delete"
    /\ store' = store
    /\ ReturnAfterStoreError(p, "delete_failed")

\* line 132: insert_one raises after delete_many has gone through, and
\* nothing is written
RefreshInsertFails(p) ==
    /\ pc[p] = "u_insert"
    /\ store' = store
    /\ ReturnAfterStoreError(p, "insert_failed")

FaultNext ==
    \/ \E p \in Procs : RefreshFetch(p) /\ UNCHANGED rankVars
    \/ \E p \in Procs : RefreshDelete(p) /\ UNCHANGED rankVars
    \/ \E p \in Procs : RefreshInsert(p) /\ UNCHANGED rankVars
    \/ \E p \in Procs : RefreshDeleteFails(p) /\ UNCHANGED rankVars
    \/ \E p \in Procs : RefreshInsertFails(p) /\ UNCHANGED rankVars
    \/ SchedTick /\ UNCHANGED rankVars
    \/ Tick /\ UNCHANGED rankVars
    \/ \E r \in Readers : \E f \in BOOLEAN : StartRead(r, f) /\ UNCHANGED rankVars
    \/ \E r \in Readers : Find1(r) /\ UNCHANGED rankVars
    \/ \E r \in Readers : Find2(r) /\ UNCHANGED rankVars
    \/ \E r \in Readers : Find3(r) /\ UNCHANGED rankVars

\* the server with a database whose writes may fail
SpecFaults == Init /\ [][FaultNext]_vars

\* The event loop keeps running: a suspended update_hyperliquid_data of the
\* lifespan or of the job is resumed when its request is answered, and the
\* scheduler started at line 178 fires the interval job.
BgStep == RefreshFetch("bg") \/ RefreshDelete("bg") \/ RefreshInsert("bg")

\* the server left alone by its clients: lifespan and the interval job
SchedNext ==
    \/ RefreshFetch("bg") /\ UNCHANGED rankVars
    \/ RefreshDelete("bg") /\ UNCHANGED rankVars
    \/ RefreshInsert("bg") /\ UNCHANGED rankVars
    \/ SchedTick /\ UNCHANGED rankVars
    \/ Tick /\ UNCHANGED rankVars

SpecSched ==
    /\ Init /\ [][SchedNext]_vars
    /\ WF_vars(BgStep /\ UNCHANGED rankVars)
    /\ WF_vars(SchedTick /\ UNCHANGED rankVars)

\* ==================================================== claims on the ranking
\* the runs that returned a list
Returned == {k \in 1..Len(returned) : ~returned[k].raised}
CoinsOf(k) == returned[k].coins
NamesOf(k) == {CoinsOf(k)[j].coin : j \in 1..Len(CoinsOf(k))}

\* what iteration i of the loop does with the inputs of this run
Iteration(i) ==
    ProcessCoin(universe, contexts, funding, i,
                params.min_open_interest, params.min_daily_volume)

\* the records of the instruments that pass every per-instrument check, in
\* universe order, from index i on
RECURSIVE Candidates(_)
Candidates(i) ==
    IF i > Len(universe) THEN <<>>
    ELSE (IF Iteration(i).kind = "append" THEN <<Iteration(i).rec>> ELSE <<>>)
         \o Candidates(i + 1)

\* C6: with the bulk fetch done, no failure of a single instrument aborts a
\* run: every finished run returned, and returned the ranking of the
\* instruments that did not fail.
C6_InstrumentFailureNeverAborts ==
    \A k \in 1..Len(returned) :
        /\ ~returned[k].raised
        /\ CoinsOf(k) = TopCoins(Candidates(1), params.top_n)

\* C7: a returned list has at most top_n entries and is sorted
\* non-increasing by annualized_funding_rate.
C7_BoundedAndSorted ==
    \A k \in Returned :
        /\ Len(CoinsOf(k)) <= params.top_n
        /\ \A a, b \in 1..Len(CoinsOf(k)) :
              a < b => ~RatLess(CoinsOf(k)[a].annualized_funding_rate,
                                CoinsOf(k)[b].annualized_funding_rate)

\* two instruments ranked, the later of the universe first
C7_Witness ==
    \E k \in Returned :
        /\ Len(CoinsOf(k)) = 2
        /\ CoinsOf(k)[1].coin = CoinNames[2]
        /\ RatLess(CoinsOf(k)[2].annualized_funding_rate,
                   CoinsOf(k)[1].annualized_funding_rate)

\* an instrument whose context parses and is below a minimum
Illiquid(i) ==
    /\ i <= Len(contexts)
    /\ ~float_raises(dict_get(contexts[i].openInterest))
    /\ ~float_raises(dict_get(contexts[i].markPx))
    /\ ~float_raises(dict_get(contexts[i].dayNtlVlm))
    /\ \/ float_val(dict_get(contexts[i].openInterest))
            * float_val(dict_get(contexts[i].markPx)) < params.min_open_interest
       \/ float_val(dict_get(contexts[i].dayNtlVlm)) < params.min_daily_volume

\* C8: every returned instrument has open_interest_usd >= min_open_interest
\* and daily_volume_usd >= min_daily_volume, and no instrument below either
\* minimum is returned.
C8_ReturnedAreLiquid ==
    \A k \in Returned :
        /\ \A j \in 1..Len(CoinsOf(k)) :
              /\ CoinsOf(k)[j].open_interest_usd >= params.min_open_interest
              /\ CoinsOf(k)[j].daily_volume_usd >= params.min_daily_volume
        /\ \A i \in 1..Len(universe) :
              (universe[i].hasName /\ Illiquid(i)) => universe[i].name \notin NamesOf(k)

\* a run returned another instrument while one with a usable funding
\* history was below exactly one minimum
C8_Witness ==
    \E k \in Returned : \E i \in 1..Len(universe) :
        /\ universe[i].hasName /\ Illiquid(i)
        /\ float_val(dict_get(contexts[i].openInterest))
             * float_val(dict_get(contexts[i].markPx)) >= params.min_open_interest
        /\ fetch_funding_history(funding[universe[i].name]) = <<Num(2)>>
        /\ Len(CoinsOf(k)) = 1

\* the funding history fetched for instrument i is empty
EmptyHistory(i) ==
    /\ universe[i].hasName
    /\ ~fetch_funding_history_raises(funding[universe[i].name])
    /\ fetch_funding_history(funding[universe[i].name]) = <<>>

\* C9: an instrument whose fetched funding history is empty (also through a
\* non-success status) is in no returned list.
C9_EmptyHistoryExcluded ==
    \A k \in Returned : \A i \in 1..Len(universe) :
        EmptyHistory(i) => universe[i].name \notin NamesOf(k)

\* a liquid instrument whose history request got a non-success status was
\* left out of a run that returned another instrument
C9_Witness ==
    \E k \in Returned : \E i \in 1..Len(contexts) :
        /\ EmptyHistory(i)
        /\ funding[universe[i].name].status # HttpOk
        /\ ~Illiquid(i)
        /\ contexts[i] = CtxLiquid
        /\ Len(CoinsOf(k)) = 1

\* C10: the second run over the same inputs ends as the first did: same
\* instruments, same order, same field values.
C10_SecondRunEqualsFirst ==
    Len(returned) = 2 => returned[1] = returned[2]

\* two runs have returned two ranked instruments each
C10_Witness ==
    /\ Len(returned) = 2
    /\ ~returned[1].raised
    /\ Len(returned[2].coins) = 2

\* the universe index of a returned instrument (names are unique)
IndexOf(name) == CHOOSE i \in 1..Len(universe) : universe[i].hasName /\ universe[i].name = name

\* the universe cut to the instruments that have a context
PairedUniverse ==
    SubSeq(universe, 1, IF Len(contexts) < Len(universe) THEN Len(contexts)
                        ELSE Len(universe))

\* C11: instrument i is processed with contexts[i]: a returned record carries
\* the price, open interest and volume of the context at its own index.  An
\* instrument at an index past the end of contexts is skipped: it is in no
\* returned list, it raises nothing, and every run ends as the run over the
\* instruments that have a context ends.
C11_PairedByPosition ==
    /\ \A k \in Returned : \A j \in 1..Len(CoinsOf(k)) :
          LET c == CoinsOf(k)[j]
              i == IndexOf(c.coin)
          IN /\ \E n \in 1..Len(universe) : universe[n].hasName /\ universe[n].name = c.coin
             /\ i <= Len(contexts)
             /\ c.mark_price = float_val(dict_get(contexts[i].markPx))
             /\ c.open_interest_usd = float_val(dict_get(contexts[i].openInterest))
                                        * float_val(dict_get(contexts[i].markPx))
             /\ c.daily_volume_usd = float_val(dict_get(contexts[i].dayNtlVlm))
    /\ \A i \in 1..Len(universe) : i > Len(contexts) => Iteration(i).kind = "skip"
    /\ \A k \in 1..Len(returned) :
          returned[k] = get_top_funding_rate_coins(PairedUniverse, contexts, funding,
                            params.min_open_interest, params.min_daily_volume,
                            params.top_n)

\* a run returned the first instrument, taken with its own open interest,
\* while the second, without a name and without a context, was skipped
C11_Witness ==
    \E k \in Returned :
        /\ Len(universe) = 2 /\ Len(contexts) = 1
        /\ ~universe[2].hasName
        /\ Len(CoinsOf(k)) = 1
        /\ CoinsOf(k)[1].coin = CoinNames[1]
        /\ CoinsOf(k)[1].open_interest_usd = 9900000

\* the history request of an instrument was answered with a non-success status
NonSuccess(name) == ~funding[name].error /\ funding[name].status # HttpOk

\* the responses of this run with every non-success one turned into a
\* success carrying no entries
EmptiedFunding ==
    [c \in DOMAIN funding |-> IF NonSuccess(c) THEN FundOk(<<>>) ELSE funding[c]]

\* C12: fetch_funding_history does not raise on a non-success status, it
\* returns the empty sequence; the instrument is skipped and the run ends as
\* it would had the exchange answered that instrument with no entries.
C12_NonSuccessStatusIsEmpty ==
    /\ \A c \in DOMAIN funding :
          NonSuccess(c) => /\ ~fetch_funding_history_raises(funding[c])
                           /\ fetch_funding_history(funding[c]) = <<>>
    /\ \A i \in 1..Len(universe) :
          (universe[i].hasName /\ NonSuccess(universe[i].name))
              => Iteration(i).kind = "skip"
    /\ \A k \in 1..Len(returned) :
          returned[k] = get_top_funding_rate_coins(universe, contexts, EmptiedFunding,
                            params.min_open_interest, params.min_daily_volume,
                            params.top_n)

\* the first instrument, liquid, got a non-success status; the run went on
\* and returned the second
C12_Witness ==
    \E k \in Returned :
        /\ Len(contexts) = 2
        /\ universe[1].hasName /\ NonSuccess(universe[1].name)
        /\ contexts[1] = CtxLiquid
        /\ Len(CoinsOf(k)) = 1
        /\ CoinsOf(k)[1].coin = CoinNames[2]

\* instrument i has a context, a name, numeric fields that parse, both USD
\* amounts at or above their minimum, and a non-empty funding history
Qualifies(i) ==
    /\ i <= Len(contexts)
    /\ universe[i].hasName
    /\ \A f \in {contexts[i].openInterest, contexts[i].markPx,
                  contexts[i].dayNtlVlm, contexts[i].funding} : f.k # "bad"
    /\ dict_get(contexts[i].openInterest).v * dict_get(contexts[i].markPx).v
          >= params.min_open_interest
    /\ dict_get(contexts[i].dayNtlVlm).v >= params.min_daily_volume
    /\ ~funding[universe[i].name].error
    /\ funding[universe[i].name].status = HttpOk
    /\ funding[universe[i].name].body # <<>>
    /\ \A j \in 1..Len(funding[universe[i].name].body) :
          funding[universe[i].name].body[j].k = "num"

Qualified == {i \in 1..Len(universe) : Qualifies(i)}

\* mean of the history entries of instrument i, times 3 a day, times 365
RateOf(i) ==
    LET body == funding[universe[i].name].body
    IN Rat(SeqSum([j \in 1..Len(body) |-> body[j].v]) * 3 * 365, Len(body))

Min(a, b) == IF a < b THEN a ELSE b

C18_TiesKeepUniverseOrder ==
    \A k \in Returned :
        /\ \A a, b \in 1..Len(CoinsOf(k)) :
              (a < b /\ RatEq(CoinsOf(k)[a].annualized_funding_rate,
                              CoinsOf(k)[b].annualized_funding_rate))
                  => IndexOf(CoinsOf(k)[a].coin) < IndexOf(CoinsOf(k)[b].coin)
        /\ \A i \in Qualified : \A j \in 1..Len(CoinsOf(k)) :
              (universe[i].name \notin NamesOf(k)
                 /\ RatEq(CoinsOf(k)[j].annualized_funding_rate, RateOf(i)))
                  => IndexOf(CoinsOf(k)[j].coin) < i

\* two qualifying instruments tie (1/1 and (1+1)/2), top_n = 1, and the run
\* returned the first of the universe
C18_Witness ==
    \E k \in Returned :
        /\ Qualified = {1, 2}
        /\ RatEq(RateOf(1), RateOf(2))
        /\ funding[universe[1].name].body # funding[universe[2].name].body
        /\ params.top_n = 1
        /\ Len(CoinsOf(k)) = 1
        /\ CoinsOf(k)[1].coin = CoinNames[1]

\* ===================================================== claims on the server
RefreshFailedOutcomes == {"bulk_failed", "rank_failed"}

\* C1: a read whose refresh failed never answers success (with the previous
\* snapshot or an empty one); it reports the failure.  Stated for the last
\* update_hyperliquid_data call the request made.
C1_FailedRefreshIsReported ==
    \A r \in Readers :
        (pc[r] = "done" /\ refreshes[r] > 0 /\ outcome[r] \in RefreshFailedOutcomes)
            => response[r].kind # "success"

\* C2: a read with force_refresh=false refreshes only when its lookup found
\* no snapshot or a stale one (so two such reads inside the validity window
\* refresh at most once in total), and a read with force_refresh=true
\* performs exactly one refresh.
C2_RefreshCount ==
    \A r \in Readers :
        /\ (~force[r] /\ pc[r] = "u_fetch" /\ refreshes[r] = 1)
              => (~cached[r].present \/ IsStale(cached[r], clock))
        /\ force[r] => refreshes[r] <= 1
        /\ (force[r] /\ pc[r] = "done") => refreshes[r] = 1

\* the step in which a find_one of request r returns
IsLookup(r) == pc[r] \in {"find1", "find2", "find3"} /\ pc'[r] # pc[r]

\* C3: a lookup made while a refresh sits between its delete_many and its
\* insert_one returns the snapshot that refresh removed or the one it is
\* about to insert, nothing else.
C3_LookupSeesOldOrNew ==
    [][\A r \in Readers : \A p \in Procs :
          (IsLookup(r) /\ pc[p] = "u_insert")
              => cached'[r] \in {find_one(deleted[p]), Doc(coins[p], now[p])}]_vars

\* C4: the step in which a refresh learns that its bulk fetch failed, which
\* is the whole of that refresh, leaves the collection as it was.
C4_FailedBulkFetchKeepsStore ==
    [][\A p \in Procs :
          (pc[p] = "u_fetch" /\ outcome'[p] = "bulk_failed") => store' = store]_vars

\* a refresh has failed on its bulk fetch while a snapshot was stored
C4_Witness ==
    \E p \in Procs :
        /\ outcome[p] = "bulk_failed"
        /\ pc[p] = ret[p]
        /\ store # <<>>

\* C5: a refresh whose bulk fetch failed ends by raising to its caller.
C5_BulkFailureIsRaised ==
    \A p \in Procs : outcome[p] = "bulk_failed" => delivered[p] = "raised"

\* C13: a finished read was answered with a response object, not with an
\* exception leaving the handler; when the refresh it made failed, or left the
\* collection empty, the response is the success=false one.
C13_ReadNeverRaises ==
    \A r \in Readers :
        pc[r] = "done" =>
            /\ response[r].kind \in {"success", "failure"}
            /\ (refreshes[r] > 0 /\ ~cached[r].present) => response[r].kind = "failure"

\* C14: the collection holds at most one document, and a document is always
\* a whole snapshot: its coins with both timestamps of one refresh.
C14_SingleSnapshot ==
    /\ Len(store) <= 1
    /\ \A j \in 1..Len(store) :
          /\ store[j].present
          /\ store[j].next_update = store[j].last_updated + RefreshSeconds

\* update_hyperliquid_data calls that have started and not yet returned
InFlight == {p \in Procs : pc[p] \in {"u_fetch", "u_delete", "u_insert"}}

\* C19: at most one refresh is in flight at any time.
C19_SingleFlight == Cardinality(InFlight) <= 1

\* C20: the step in which a refresh inserts its snapshot never puts it in
\* place of a snapshot with a later last_updated: no snapshot the refresh
\* removed with its delete_many is newer than the one it inserts.
C20_LastUpdatedNeverDecreases ==
    [][\A p \in Procs :
          (pc[p] = "u_insert" /\ pc'[p] # "u_insert")
              => \A j \in 1..Len(deleted[p]) : deleted[p][j].last_updated <= now[p]]_vars

\* force_refresh, or nothing stored, or the time is past the validity end of
\* what is stored
MustRefresh(r, doc) == force[r] \/ ~doc.present \/ clock > doc.next_update

\* C15: a read calls update_hyperliquid_data only when force_refresh is set,
\* or its lookup found no snapshot, or the time is past next_update of the
\* snapshot found, and its first lookup always calls it then; otherwise the
\* read answers with the snapshot found and the collection stays as it was.
\* Every stored snapshot has next_update = last_updated + the interval.
C15_RefreshIffNeeded ==
    [][/\ \A r \in Readers :
            IsLookup(r) =>
              LET doc == find_one(store)
              IN /\ pc'[r] = "u_fetch" => MustRefresh(r, doc)
                 /\ (pc[r] = "find1" /\ MustRefresh(r, doc)) => pc'[r] = "u_fetch"
                 /\ (pc[r] = "find1" /\ ~MustRefresh(r, doc))
                       => /\ pc'[r] = "done"
                          /\ response'[r] = Success(doc)
                          /\ store' = store
       /\ \A j \in 1..Len(store') :
            store'[j].next_update = store'[j].last_updated + RefreshSeconds]_vars

\* a read without force_refresh, made at the very end of the validity of the
\* stored snapshot, was answered with it and called no refresh
C15_Witness ==
    \E r \in Readers :
        /\ pc[r] = "done"
        /\ ~force[r]
        /\ refreshes[r] = 0
        /\ response[r].kind = "success"
        /\ clock = response[r].next_update
        /\ store = <<cached[r]>>

C21_SnapshotSurvivesRefresh ==
    [][\A p \in Procs :
          (/\ p \in InFlight
           /\ InFlight' = {}
           /\ (store # <<>> \/ deleted[p] # <<>>))
              => store' # <<>>]_vars

====
